---------------------------- MODULE Spec2Model ----------------------------
(***************************************************************************)
(* Encrypted memos of dhive: src/src/memo.ts (Memo.encode, Memo.decode)    *)
(* and the AES helper src/unnamed/part_000 (encrypt, decrypt, crypt,       *)
(* cryptoJsEncrypt, cryptoJsDecrypt, uniqueNonce).                         *)
(*                                                                         *)
(* Values.  A JavaScript string is a sequence of code points, a Buffer a   *)
(* sequence of bytes 0..255.  A returned value is a record whose field err *)
(* is "" when the call returned and the thrown error's name otherwise.     *)
(***************************************************************************)
EXTENDS Integers, Sequences, FiniteSets, TLC

(* ------------------------------ bounds -------------------------------- *)

\* longest memo text (code points) handed to encode or to a raw sender
MaxMemoLen == 2
\* number of uniqueNonce() calls in one run of a specification
MaxCalls == 4
\* the length of a run of consecutive uniqueNonce() calls looked ahead
NonceRun == 10000
\* last reading of the millisecond clock (the first is 0)
MaxTime == 2

(* ------------------------- program constants -------------------------- *)

\* the modulus of the entropy counter, 0xFFFF
EntropyModulus == 65535
\* the nonce's shift: long.shiftLeft(16)
NonceShift == 16
\* block size of 'aes-256-cbc'
BlockSize == 16
\* the marker '#'
Marker == 35

(* ------------------------------ helpers ------------------------------- *)

RECURSIVE Pow(_, _)
Pow(b, e) == IF e = 0 THEN 1 ELSE b * Pow(b, e - 1)

\* every sequence over S of length at most n
RECURSIVE SeqsUpTo(_, _)
SeqsUpTo(S, n) ==
    IF n = 0 THEN {<<>>}
    ELSE LET shorter == SeqsUpTo(S, n - 1)
         IN  shorter \cup {Append(s, c) : s \in shorter, c \in S}

\* a slip for startsWithMarker: memo.includes('#')
includesMarker(s) == \E i \in 1..Len(s) : s[i] = Marker

\* String.prototype.startsWith('#')
startsWithMarker(s) == Len(s) >= 1 /\ s[1] = Marker

\* String.prototype.substring(1)
substring1(s) == SubSeq(s, 2, Len(s))

(* ------------------------------- UTF-8 -------------------------------- *)

\* the UTF-8 bytes of one code point (up to U+FFFF)
Utf8OfCodePoint(c) ==
    IF c < 128 THEN <<c>>
    ELSE IF c < 2048 THEN <<192 + (c \div 64), 128 + (c % 64)>>
    ELSE <<224 + (c \div 4096), 128 + ((c \div 64) % 64), 128 + (c % 64)>>

\* Buffer.from(str) and Buffer.from(str, 'utf8'): the string's UTF-8 bytes
RECURSIVE Utf8Encode(_)
Utf8Encode(s) ==
    IF s = <<>> THEN <<>>
    ELSE Utf8OfCodePoint(Head(s)) \o Utf8Encode(Tail(s))

IsCont(b, i) == i <= Len(b) /\ b[i] \in 128..191

\* the allowed range of the second byte after lead byte h (Unicode table 3-7)
SecondRange(h) ==
    IF h = 224 THEN 160..191
    ELSE IF h = 237 THEN 128..159
    ELSE IF h = 240 THEN 144..191
    ELSE IF h = 244 THEN 128..143
    ELSE 128..191

\* bytes the sequence led by h takes: 0 marks an invalid lead byte
Utf8Need(h) ==
    IF h < 128 THEN 1
    ELSE IF h \in 194..223 THEN 2
    ELSE IF h \in 224..239 THEN 3
    ELSE IF h \in 240..244 THEN 4
    ELSE 0

\* how many bytes of the sequence starting at b[1] are well formed
Utf8Valid(b) ==
    LET h == Head(b)
        n == Utf8Need(h)
    IN  IF n <= 1 THEN 1
        ELSE IF ~(Len(b) >= 2 /\ b[2] \in SecondRange(h)) THEN 1
        ELSE IF n = 2 THEN 2
        ELSE IF ~IsCont(b, 3) THEN 2
        ELSE IF n = 3 THEN 3
        ELSE IF ~IsCont(b, 4) THEN 3
        ELSE 4

\* buf.toString('utf-8'): every ill-formed maximal subpart becomes U+FFFD
RECURSIVE Utf8Decode(_)
Utf8Decode(b) ==
    IF b = <<>> THEN <<>>
    ELSE LET h == Head(b)
             n == Utf8Need(h)
             v == Utf8Valid(b)
             rest == Utf8Decode(SubSeq(b, v + 1, Len(b)))
         IN  IF n = 0 \/ v < n THEN <<65533>> \o rest
             ELSE IF n = 1 THEN <<h>> \o rest
             ELSE IF n = 2 THEN <<(h - 192) * 64 + (b[2] - 128)>> \o rest
             ELSE IF n = 3
                  THEN <<(h - 224) * 4096 + (b[2] - 128) * 64 + (b[3] - 128)>> \o rest
             ELSE <<(h - 240) * 262144 + (b[2] - 128) * 4096
                      + (b[3] - 128) * 64 + (b[4] - 128)>> \o rest

\* Buffer.from(str, 'binary'): one byte per character, its low eight bits
RECURSIVE BinaryToBuffer(_)
BinaryToBuffer(s) ==
    IF s = <<>> THEN <<>>
    ELSE <<Head(s) % 256>> \o BinaryToBuffer(Tail(s))

\* buf.toString('binary') and ByteBuffer.toBinary(): one character per byte
RECURSIVE BufferToBinary(_)
BufferToBinary(b) ==
    IF b = <<>> THEN <<>>
    ELSE <<Head(b)>> \o BufferToBinary(Tail(b))

(* --------------------- ByteBuffer: varint32, VString ------------------- *)

\* ByteBuffer.writeVarint32 of a length (never negative)
RECURSIVE writeVarint32(_)
writeVarint32(v) ==
    IF v < 128 THEN <<v>>
    ELSE <<128 + (v % 128)>> \o writeVarint32(v \div 128)

\* ByteBuffer.writeVString: the varint32 byte length, then the UTF-8 bytes
writeVString(str) ==
    LET utf8 == Utf8Encode(str)
    IN  writeVarint32(Len(utf8)) \o utf8

\* the byte readVarint32 reads at index i (from 1): reading buffer[limit],
\* one past the end, gives undefined, which adds nothing and ends the loop
VarintByte(b, i) == IF i <= Len(b) THEN b[i] ELSE 0

\* the number of bytes the loop of readVarint32 consumes, from index i
RECURSIVE VarintLength(_, _)
VarintLength(b, i) ==
    IF VarintByte(b, i) >= 128 THEN 1 + VarintLength(b, i + 1) ELSE 1

\* value |= (b & 0x7f) << (7*c) for the first four bytes (28 bits)
RECURSIVE VarintLow(_, _)
VarintLow(b, c) ==
    IF c = 0 THEN 0
    ELSE VarintLow(b, c - 1) + (VarintByte(b, c) % 128) * Pow(128, c - 1)

\* ByteBuffer.readVarint32 at offset 0: the fifth byte's low four bits are
\* bits 28..31 of an int32 (value |= 0), later bytes are read and ignored
readVarint32(b) ==
    LET n == VarintLength(b, 1)
        low == VarintLow(b, IF n < 4 THEN n ELSE 4)
        fifth == IF n >= 5 THEN VarintByte(b, 5) % 16 ELSE 0
        pos == low + (fifth % 8) * 268435456
    IN  [value |-> IF fifth >= 8 THEN (pos - 1073741824) - 1073741824 ELSE pos,
         length |-> n]

\* ByteBuffer.readVString at offset 0 of a buffer whose limit is its length:
\* err is "RangeError" when the buffer is empty or the declared length runs
\* past the end (readUTF8String's offset + length > buffer.length)
readVString(b) ==
    IF Len(b) = 0 THEN [err |-> "RangeError", str |-> <<>>]
    ELSE LET v == readVarint32(b)
         IN  IF v.length + v.value > Len(b)
             THEN [err |-> "RangeError", str |-> <<>>]
             ELSE IF v.value <= 0 THEN [err |-> "", str |-> <<>>]
             ELSE [err |-> "",
                   str |-> Utf8Decode(SubSeq(b, v.length + 1, v.length + v.value))]

\* little-endian bytes of an unsigned integer, k bytes wide
RECURSIVE UintLE(_, _)
UintLE(n, k) ==
    IF k = 0 THEN <<>> ELSE <<n % 256>> \o UintLE(n \div 256, k - 1)

RECURSIVE FromLE(_)
FromLE(b) == IF b = <<>> THEN 0 ELSE Head(b) + 256 * FromLE(Tail(b))

(* ------------------------------- keys --------------------------------- *)

\* a malformed key string: PrivateKey.fromString / PublicKey.fromString throw
BadKey == 0

\* the private keys of A, B and an unrelated C
PrivKeys == {3, 5, 7}

RECURSIVE PowMod(_, _, _)
PowMod(b, e, m) == IF e = 0 THEN 1 % m ELSE (b * PowMod(b, e - 1, m)) % m

\* PrivateKey.createPublic: Diffie-Hellman in the group of order 22 mod 23
createPublic(d) == PowMod(5, d, 23)

\* PrivateKey.get_shared_secret(public_key): the same for both parties
get_shared_secret(d, Q) == PowMod(Q, d, 23)

PubKeys == {createPublic(d) : d \in PrivKeys}

\* toPrivateObj / toPublicObj: a key object is kept, a string is parsed
toPrivateObj(o) == [err |-> IF o = BadKey THEN "InvalidKey" ELSE "", key |-> o]
toPublicObj(o) == [err |-> IF o = BadKey THEN "InvalidKey" ELSE "", key |-> o]

(* ----------------------------- key schedule --------------------------- *)

\* createHash('sha512') of (nonce as uint64 LE, then S): an injective map
\* of the pair (S < 32); the digest is never 0
sha512(nonce, S) == 1 + S + 32 * nonce

\* tag = encryption_key.slice(0, 32), iv = encryption_key.slice(32, 48)
tagOf(encryption_key) == encryption_key % 256
ivOf(encryption_key) == (encryption_key \div 256) % 256

\* the first four bytes of createHash('sha256') of the key, as a uint32:
\* injective, and never 0 here
sha256Uint32(encryption_key) == 3 * encryption_key + 1

(* ------------------------------- cipher ------------------------------- *)

\* PKCS#7 padding of createCipheriv('aes-256-cbc')
Pkcs7Pad(m) ==
    LET p == BlockSize - (Len(m) % BlockSize)
    IN  m \o [i \in 1..p |-> p]

\* chained encryption: each byte is masked by the key and the byte before
RECURSIVE CbcEncrypt(_, _, _)
CbcEncrypt(m, tag, prev) ==
    IF m = <<>> THEN <<>>
    ELSE LET c == (Head(m) + tag + prev) % 256
         IN  <<c>> \o CbcEncrypt(Tail(m), tag, c)

RECURSIVE CbcDecrypt(_, _, _)
CbcDecrypt(c, tag, prev) ==
    IF c = <<>> THEN <<>>
    ELSE <<(Head(c) + 512 - tag - prev) % 256>> \o CbcDecrypt(Tail(c), tag, Head(c))

\* decipher.final(): the padding is checked and removed
Pkcs7Ok(m) ==
    /\ Len(m) > 0
    /\ Len(m) % BlockSize = 0
    /\ m[Len(m)] \in 1..BlockSize
    /\ \A i \in (Len(m) - m[Len(m)] + 1)..Len(m) : m[i] = m[Len(m)]

(* ------------------------- JavaScript values -------------------------- *)

\* a message argument: undefined, a string or a Buffer
Undefined == [type |-> "undefined", data |-> <<>>]
Str(s) == [type |-> "string", data |-> s]
Buf(b) == [type |-> "buffer", data |-> b]

\* truthiness: undefined and '' are falsy, every Buffer is truthy
Truthy(o) == o.type = "buffer" \/ (o.type = "string" /\ o.data # <<>>)

\* toBinaryBuffer = o => (o ? Buffer.isBuffer(o) ? o : Buffer.from(o, 'binary') : o)
toBinaryBuffer(o) ==
    IF ~Truthy(o) THEN o
    ELSE IF o.type = "buffer" THEN o
    ELSE Buf(BinaryToBuffer(o.data))

\* crypt's optional parameter checksum left out (undefined)
NoChecksum == -1

\* if (checksum): undefined and 0 are falsy
ChecksumTruthy(checksum) == checksum # NoChecksum /\ checksum # 0

(* ------------------------- part_000: the AES helper -------------------- *)

\* cryptoJsEncrypt(message, tag, iv)
cryptoJsEncrypt(message, tag, iv) ==
    IF ~Truthy(message) THEN [err |-> "Missing plain text", message |-> <<>>]
    ELSE [err |-> "",
          message |-> CbcEncrypt(Pkcs7Pad(toBinaryBuffer(message).data), tag, iv)]

\* decipher.update and decipher.final on the decrypted blocks m
DecipherFinal(m) ==
    IF ~Pkcs7Ok(m) THEN [err |-> "bad decrypt", message |-> <<>>]
    ELSE [err |-> "", message |-> SubSeq(m, 1, Len(m) - m[Len(m)])]

\* a slip for cryptoJsDecrypt: the assert is left out
cryptoJsDecryptNoAssert(message, tag, iv) ==
    DecipherFinal(CbcDecrypt(toBinaryBuffer(message).data, tag, iv))

\* cryptoJsDecrypt(message, tag, iv)
cryptoJsDecrypt(message, tag, iv) ==
    IF ~Truthy(message) THEN [err |-> "Missing cipher text", message |-> <<>>]
    ELSE DecipherFinal(CbcDecrypt(toBinaryBuffer(message).data, tag, iv))

\* what crypt returns or throws after the cipher call c; work lists the
\* cryptographic steps taken, in order, up to the return or the throw
CryptResult(c, nonce, check, work) ==
    [err |-> c.err, nonce |-> nonce, message |-> c.message, checksum |-> check,
     work |-> work]

\* the second half of crypt: the check value, and if (checksum) ... else ...
CryptWithKey(encryption_key, nonce, message, checksum, check) ==
    IF ChecksumTruthy(checksum)
    THEN IF check # checksum
         THEN [err |-> "Invalid nonce", nonce |-> nonce, message |-> <<>>,
               checksum |-> check,
               work |-> <<"get_shared_secret", "sha512", "sha256", "compare">>]
         ELSE CryptResult(
                  cryptoJsDecrypt(message, tagOf(encryption_key), ivOf(encryption_key)),
                  nonce, check,
                  <<"get_shared_secret", "sha512", "sha256", "compare">>
                      \o (IF Truthy(message) THEN <<"decipher">> ELSE <<>>))
    ELSE CryptResult(
             cryptoJsEncrypt(message, tagOf(encryption_key), ivOf(encryption_key)),
             nonce, check,
             <<"get_shared_secret", "sha512", "sha256">>
                 \o (IF Truthy(message) THEN <<"cipher">> ELSE <<>>))

\* everything of crypt after the key: tag, iv, check, then the branch
CryptKeyed(encryption_key, nonce, message, checksum) ==
    CryptWithKey(encryption_key, nonce, message, checksum,
                 sha256Uint32(encryption_key))

\* crypt(private_key, public_key, nonce, message, checksum): the shared
\* secret and the key derived from it and the nonce come first.  toLongObj
\* keeps the nonce's value.
crypt(private_key, public_key, nonce, message, checksum) ==
    CryptKeyed(sha512(nonce, get_shared_secret(private_key, public_key)),
               nonce, message, checksum)

\* let unique_nonce_entropy = null
Null == -1

\* ++unique_nonce_entropy % 0xFFFF, shifted under the clock's reading; the
\* counter itself is incremented and never reduced
NonceOf(incremented, now) ==
    [nonce |-> now * Pow(2, NonceShift) + (incremented % EntropyModulus),
     entropy |-> incremented]

\* a slip for uniqueNonce: the counter is read and not incremented
uniqueNonceNoIncrement(entropy, random, now) ==
    NonceOf(IF entropy = Null THEN random ELSE entropy, now)

\* uniqueNonce(): entropy is the module's counter, random the value the two
\* random bytes give when the counter is still null, now the reading of
\* Date.now()
uniqueNonce(entropy, random, now) ==
    NonceOf((IF entropy = Null THEN random ELSE entropy) + 1, now)

\* the call of crypt in encrypt, with the nonce u that uniqueNonce() gave
EncryptWithNonce(private_key, public_key, message, u) ==
    [entropy |-> u.entropy]
        @@ crypt(private_key, public_key, u.nonce, message, NoChecksum)

\* encrypt(private_key, public_key, message, nonce): the nonce parameter is
\* not read.  writeVString throws on anything but a string, before
\* uniqueNonce() is called; the framed bytes go through Buffer.from(str).
encrypt(private_key, public_key, message, nonce, entropy, random, now) ==
    IF message.type # "string"
    THEN [err |-> "Illegal str", nonce |-> 0, message |-> <<>>, checksum |-> 0,
          work |-> <<>>, entropy |-> entropy]
    ELSE EncryptWithNonce(private_key, public_key,
                          Buf(Utf8Encode(BufferToBinary(writeVString(message.data)))),
                          uniqueNonce(entropy, random, now))

\* a slip for decrypt: a nonce is drawn, as encrypt does
decryptDrawsNonce(private_key, public_key, nonce, message, checksum, entropy) ==
    [entropy |-> uniqueNonce(entropy, 0, 0).entropy]
        @@ crypt(private_key, public_key, nonce, message, checksum)

\* decrypt(private_key, public_key, nonce, message, checksum); entropy is the
\* module's counter before the call, the result's entropy the counter after
decrypt(private_key, public_key, nonce, message, checksum, entropy) ==
    [entropy |-> entropy]
        @@ crypt(private_key, public_key, nonce, message, checksum)

(* ---------------- the envelope on the wire, and Base58 ----------------- *)

\* Types.EncryptedMemo: from, to (one byte each here), nonce (uint64 LE),
\* check (uint32 LE), encrypted (varint32 length, then the bytes)
EncryptedMemo(env) ==
    <<env.from, env.to>> \o UintLE(env.nonce, 8) \o UintLE(env.check, 4)
        \o writeVarint32(Len(env.encrypted)) \o env.encrypted

\* the fields of an envelope of bytes b whose blob's varint is v
EnvelopeFields(b, v) ==
    IF v.value < 0 \/ 14 + v.length + v.value > Len(b)
    THEN [err |-> "deserialize", from |-> 0, to |-> 0, nonce |-> 0,
          check |-> 0, encrypted |-> <<>>]
    ELSE [err |-> "", from |-> b[1], to |-> b[2],
          nonce |-> FromLE(SubSeq(b, 3, 10)),
          check |-> FromLE(SubSeq(b, 11, 14)),
          encrypted |-> SubSeq(b, 14 + v.length + 1, 14 + v.length + v.value)]

\* types.EncryptedMemoD
EncryptedMemoD(b) ==
    IF Len(b) < 15
    THEN [err |-> "deserialize", from |-> 0, to |-> 0, nonce |-> 0,
          check |-> 0, encrypted |-> <<>>]
    ELSE EnvelopeFields(b, readVarint32(SubSeq(b, 15, Len(b))))

\* the Base58 alphabet, as code points
B58Alphabet ==
    <<49, 50, 51, 52, 53, 54, 55, 56, 57,
      65, 66, 67, 68, 69, 70, 71, 72, 74, 75, 76, 77, 78, 80, 81, 82, 83,
      84, 85, 86, 87, 88, 89, 90,
      97, 98, 99, 100, 101, 102, 103, 104, 105, 106, 107, 109, 110, 111,
      112, 113, 114, 115, 116, 117, 118, 119, 120, 121, 122>>

B58Index(c) == CHOOSE i \in 1..58 : B58Alphabet[i] = c

IsB58(c) == \E i \in 1..58 : B58Alphabet[i] = c

\* bs58.encode: bytes to text over the Base58 alphabet, here two digits for
\* each byte (the library converts the whole buffer as one number)
RECURSIVE bs58_encode(_)
bs58_encode(b) ==
    IF b = <<>> THEN <<>>
    ELSE <<B58Alphabet[(Head(b) \div 58) + 1], B58Alphabet[(Head(b) % 58) + 1]>>
             \o bs58_encode(Tail(b))

RECURSIVE B58Bytes(_)
B58Bytes(s) ==
    IF Len(s) < 2 THEN <<>>
    ELSE <<((B58Index(s[1]) - 1) * 58 + (B58Index(s[2]) - 1)) % 256>>
             \o B58Bytes(SubSeq(s, 3, Len(s)))

\* bs58.decode: throws on a character outside the alphabet
bs58_decode(s) ==
    IF \E i \in 1..Len(s) : ~IsB58(s[i])
    THEN [err |-> "Non-base58 character", bytes |-> <<>>]
    ELSE [err |-> "", bytes |-> B58Bytes(s)]

(* ------------------------------ memo.ts ------------------------------- *)

\* testNonce left out
NoNonce == -1

\* the end of encode: the envelope of what Aes.encrypt returned (e) is
\* serialized, Base58-encoded and marked
MemoString(from, to, e) ==
    IF e.err # ""
    THEN [err |-> e.err, out |-> <<>>, nonce |-> 0, work |-> e.work,
          entropy |-> e.entropy]
    ELSE [err |-> "",
          out |-> <<Marker>> \o bs58_encode(EncryptedMemo(
                      [check |-> e.checksum, encrypted |-> e.message,
                       from |-> from, nonce |-> e.nonce, to |-> to])),
          nonce |-> e.nonce, work |-> e.work, entropy |-> e.entropy]

\* encode(private_key, public_key, memo, testNonce)
encode(private_key, public_key, memo, testNonce, entropy, random, now) ==
    IF ~startsWithMarker(memo)
    THEN [err |-> "", out |-> memo, nonce |-> 0, work |-> <<>>,
          entropy |-> entropy]
    ELSE IF toPrivateObj(private_key).err # "" \/ toPublicObj(public_key).err # ""
    THEN [err |-> "InvalidKey", out |-> <<>>, nonce |-> 0, work |-> <<>>,
          entropy |-> entropy]
    ELSE MemoString(createPublic(toPrivateObj(private_key).key),
                    toPublicObj(public_key).key,
                    encrypt(toPrivateObj(private_key).key,
                            toPublicObj(public_key).key,
                            Str(substring1(memo)), testNonce,
                            entropy, random, now))

\* a slip for otherpubOf: the caller's key is compared with to
otherpubComparedWithTo(pubkey, from, to) == IF pubkey = to THEN from ELSE to

\* pubkey === new PublicKey(from.key).toString() ? to : from
otherpubOf(pubkey, from, to) == IF pubkey = from THEN to ELSE from

\* a slip for unframe: no catch, what readVString throws is thrown on
unframeNoCatch(message) ==
    LET v == readVString(BinaryToBuffer(BufferToBinary(message)))
    IN  [err |-> v.err, out |-> <<Marker>> \o v.str]

\* the end of decode: read the length-prefixed string, or, when that
\* throws, take all the bytes as UTF-8
unframe(message) ==
    LET mbuf == BinaryToBuffer(BufferToBinary(message))
        v == readVString(mbuf)
    IN  IF v.err = ""
        THEN [err |-> "", out |-> <<Marker>> \o v.str]
        ELSE [err |-> "",
              out |-> <<Marker>> \o Utf8Decode(BinaryToBuffer(BufferToBinary(mbuf)))]

\* what decode returns or throws
DecodeResult(err, out, otherpub, work, entropy) ==
    [err |-> err, out |-> out, otherpub |-> otherpub, work |-> work,
     entropy |-> entropy]

\* decode, after Aes.decrypt returned or threw d
DecodeDecrypted(otherpub, d, u) ==
    IF d.err # "" THEN DecodeResult(d.err, <<>>, otherpub, d.work, d.entropy)
    ELSE DecodeResult(u.err, u.out, otherpub, d.work, d.entropy)

DecodeUnframe(otherpub, d) == DecodeDecrypted(otherpub, d, unframe(d.message))

\* decode, from the counterparty's key on
DecodeWith(private_key, otherpub, env, entropy) ==
    DecodeUnframe(otherpub,
                  decrypt(private_key, otherpub, env.nonce, Buf(env.encrypted),
                          env.check, entropy))

\* decode, from the deserialized envelope on
DecodeEnvelope(private_key, env, entropy) ==
    IF env.err # "" THEN DecodeResult(env.err, <<>>, 0, <<>>, entropy)
    ELSE DecodeWith(private_key,
                    otherpubOf(createPublic(private_key), env.from, env.to),
                    env, entropy)

\* decode, from the Base58-decoded bytes on
DecodeBytes(private_key, raw, entropy) ==
    IF raw.err # "" THEN DecodeResult(raw.err, <<>>, 0, <<>>, entropy)
    ELSE DecodeEnvelope(private_key, EncryptedMemoD(raw.bytes), entropy)

\* decode(private_key, memo)
decode(private_key, memo, entropy) ==
    IF ~startsWithMarker(memo) THEN DecodeResult("", memo, 0, <<>>, entropy)
    ELSE IF toPrivateObj(private_key).err # ""
    THEN DecodeResult("InvalidKey", <<>>, 0, <<>>, entropy)
    ELSE DecodeBytes(toPrivateObj(private_key).key,
                     bs58_decode(substring1(memo)), entropy)

(* ------------------------------- inputs ------------------------------- *)

\* the characters of memo texts: '#', U+00E9 and U+0001
MemoChars == {Marker, 233, 1}

MemoTexts == SeqsUpTo(MemoChars, MaxMemoLen)

\* A's and B's private keys send; C's is the unrelated one
SenderKeys == {3, 5}

\* key arguments: a key, or a string that is no key
PrivArgs == PrivKeys \cup {BadKey}
SenderArgs == SenderKeys \cup {BadKey}
RecipientKeys == {createPublic(d) : d \in SenderKeys}
PubArgs == RecipientKeys \cup {BadKey}

\* the testNonce argument: left out, or the fixed nonce of the tests
TestNonces == {NoNonce, 12345}

\* what the two random bytes of uniqueNonce() can give, around the wrap
EntropySeeds == {0, 65533, 65534, 65535}

(* -------------------------------- state -------------------------------- *)

VARIABLES
    unique_nonce_entropy,  \* the module's counter: Null until the first call
    now,                   \* the reading of Date.now(), in milliseconds
    calls,                 \* calls of uniqueNonce() so far
    nonces,                \* what uniqueNonce() returned, in order
    wire,                  \* the memo string a sender produced, if any
    last                   \* the last call: its arguments and its outcome

vars == <<unique_nonce_entropy, now, calls, nonces, wire, last>>

NoWire == [kind |-> "none", str |-> <<>>, sender |-> 0, recipient |-> 0,
           text |-> <<>>]

NoCall == [op |-> "none", key |-> 0, pub |-> 0, memo |-> <<>>, msg |-> Undefined,
           testNonce |-> NoNonce, given |-> NoChecksum, err |-> "", out |-> <<>>,
           nonce |-> 0, check |-> 0, otherpub |-> 0, work |-> <<>>,
           before |-> Null]

\* the module is loaded at some reading of the clock
Init ==
    /\ unique_nonce_entropy = Null
    /\ now \in 0..MaxTime
    /\ calls = 0
    /\ nonces = <<>>
    /\ wire = NoWire
    /\ last = NoCall

\* the two random bytes are read only while the counter is null
Seeds == IF unique_nonce_entropy = Null THEN EntropySeeds ELSE {0}

\* time passes: Date.now() never goes back
Tick ==
    /\ now < MaxTime
    /\ now' = now + 1
    /\ UNCHANGED <<unique_nonce_entropy, calls, nonces, wire, last>>

\* the state after Memo.encode returned or threw r
EncodeReturns(private_key, public_key, memo, testNonce, r) ==
    /\ unique_nonce_entropy' = r.entropy
    /\ calls' = IF r.entropy # unique_nonce_entropy THEN calls + 1 ELSE calls
    /\ wire' = IF r.err # "" THEN wire
               ELSE [kind |-> IF startsWithMarker(memo) THEN "encoded" ELSE "plain",
                     str |-> r.out, sender |-> private_key,
                     recipient |-> public_key, text |-> memo]
    /\ last' = [NoCall EXCEPT !.op = "encode", !.key = private_key,
                  !.pub = public_key, !.memo = memo, !.testNonce = testNonce,
                  !.err = r.err, !.out = r.out, !.nonce = r.nonce,
                  !.work = r.work, !.before = unique_nonce_entropy]
    /\ UNCHANGED <<now, nonces>>

\* a call of Memo.encode; the string it returns goes on the wire (a run
\* sends one memo)
Encode ==
    /\ last.op = "none"
    /\ \E private_key \in SenderArgs, public_key \in PubArgs, memo \in MemoTexts,
          testNonce \in TestNonces, random \in Seeds :
        EncodeReturns(private_key, public_key, memo, testNonce,
                      encode(private_key, public_key, memo, testNonce,
                             unique_nonce_entropy, random, now))

\* the memo string of an envelope
MemoOfEnvelope(env) == <<Marker>> \o bs58_encode(EncryptedMemo(env))

\* the envelope in a memo string
EnvelopeOf(str) == EncryptedMemoD(bs58_decode(substring1(str)).bytes)

\* the envelope a raw sender builds from what the cipher gave
RawEnvelope(private_key, public_key, c) ==
    [check |-> c.checksum, encrypted |-> c.message,
     from |-> createPublic(private_key), nonce |-> c.nonce, to |-> public_key]

\* a sender that does not length-prefix the memo: the UTF-8 bytes of the
\* text are encrypted as they are, under a nonce of the sender's
RawSend ==
    /\ last.op = "none"
    /\ \E private_key \in SenderKeys, public_key \in RecipientKeys,
          text \in MemoTexts :
        /\ wire' = [kind |-> "raw",
                    str |-> MemoOfEnvelope(RawEnvelope(private_key, public_key,
                               crypt(private_key, public_key, 12345,
                                     Buf(Utf8Encode(text)), NoChecksum))),
                    sender |-> private_key, recipient |-> public_key,
                    text |-> text]
        /\ last' = [NoCall EXCEPT !.op = "rawsend", !.key = private_key,
                      !.pub = public_key, !.memo = text, !.nonce = 12345,
                      !.before = unique_nonce_entropy]
        /\ UNCHANGED <<unique_nonce_entropy, now, calls, nonces>>

\* the value with bit k flipped
FlipBit(v, k) ==
    IF (v \div Pow(2, k)) % 2 = 1 THEN v - Pow(2, k) ELSE v + Pow(2, k)

\* the envelope's memo string with the check field zeroed, or its lowest bit
\* flipped
Tampered(env) ==
    {MemoOfEnvelope([env EXCEPT !.check = 0]),
     MemoOfEnvelope([env EXCEPT !.check = FlipBit(env.check, 0)])}

\* what decode may be handed: the string on the wire, as it is or tampered
DecodeInputs ==
    IF wire.kind \in {"encoded", "raw"}
    THEN {wire.str} \cup Tampered(EnvelopeOf(wire.str))
    ELSE {wire.str}

\* the state after Memo.decode returned or threw r
DecodeReturns(private_key, memo, r) ==
    /\ unique_nonce_entropy' = r.entropy
    /\ last' = [NoCall EXCEPT !.op = "decode", !.key = private_key,
                  !.memo = memo, !.err = r.err, !.out = r.out,
                  !.otherpub = r.otherpub, !.work = r.work,
                  !.before = unique_nonce_entropy]
    /\ UNCHANGED <<now, calls, nonces, wire>>

\* a call of Memo.decode
Decode ==
    /\ wire.kind # "none"
    /\ \E private_key \in PrivArgs, memo \in DecodeInputs :
        DecodeReturns(private_key, memo,
                      decode(private_key, memo, unique_nonce_entropy))

Next == Encode \/ RawSend \/ Decode

Spec == Init /\ [][Next]_vars

(* --------------------- calls of the AES helper itself ------------------ *)

\* what Aes.encrypt is handed as message: nothing, '', or a text
Plaintexts == {Undefined} \cup {Str(t) : t \in SeqsUpTo({233, 1}, 1)}

\* the bytes Aes.encrypt puts under the cipher for the text <<1>>
FramedSample == Buf(Utf8Encode(BufferToBinary(writeVString(<<1>>))))

\* what Aes.decrypt is handed as message: nothing, '', an empty Buffer, or
\* the ciphertext c as a Buffer or as a binary string
Ciphertexts(c) ==
    {Undefined, Str(<<>>), Buf(<<>>), Buf(c), Str(BufferToBinary(c))}

\* what Aes.decrypt is handed as checksum: 0, the checksum that goes with
\* the keys and the nonce, or that checksum with its lowest bit flipped
Checksums(check) == {0, check, FlipBit(check, 0)}

\* the state after Aes.encrypt returned or threw r
AesEncryptReturns(private_key, public_key, message, nonce, r) ==
    /\ unique_nonce_entropy' = r.entropy
    /\ calls' = IF r.entropy # unique_nonce_entropy THEN calls + 1 ELSE calls
    /\ last' = [NoCall EXCEPT !.op = "encrypt", !.key = private_key,
                  !.pub = public_key, !.msg = message, !.testNonce = nonce,
                  !.err = r.err, !.out = r.message, !.nonce = r.nonce,
                  !.check = r.checksum, !.work = r.work,
                  !.before = unique_nonce_entropy]
    /\ UNCHANGED <<now, nonces, wire>>

\* a call of Aes.encrypt
AesEncrypt ==
    /\ calls < MaxCalls
    /\ \E private_key \in SenderKeys, public_key \in RecipientKeys,
          message \in Plaintexts, nonce \in TestNonces, random \in Seeds :
        AesEncryptReturns(private_key, public_key, message, nonce,
                          encrypt(private_key, public_key, message, nonce,
                                  unique_nonce_entropy, random, now))

\* the state after Aes.decrypt returned or threw r
AesDecryptReturns(private_key, public_key, nonce, message, checksum, r) ==
    /\ unique_nonce_entropy' = r.entropy
    /\ last' = [NoCall EXCEPT !.op = "decrypt", !.key = private_key,
                  !.pub = public_key, !.msg = message, !.given = checksum,
                  !.err = r.err, !.out = r.message, !.nonce = nonce,
                  !.check = r.checksum, !.work = r.work,
                  !.before = unique_nonce_entropy]
    /\ UNCHANGED <<now, calls, nonces, wire>>

\* a call of Aes.decrypt, on what the sender's cipher gave (sent) or on less
AesDecryptOf(private_key, public_key, sent) ==
    \E message \in Ciphertexts(sent.message), checksum \in Checksums(sent.checksum) :
        AesDecryptReturns(private_key, public_key, sent.nonce, message, checksum,
                          decrypt(private_key, public_key, sent.nonce, message,
                                  checksum, unique_nonce_entropy))

AesDecrypt ==
    \E private_key \in SenderKeys, public_key \in RecipientKeys :
        AesDecryptOf(private_key, public_key,
                     crypt(private_key, public_key, 12345, FramedSample, NoChecksum))

NextAes == Tick \/ AesEncrypt \/ AesDecrypt

SpecAes == Init /\ [][NextAes]_vars

(* ------------------------- calls of uniqueNonce() ---------------------- *)

\* the state after uniqueNonce() returned u
NonceReturned(u) ==
    /\ unique_nonce_entropy' = u.entropy
    /\ calls' = calls + 1
    /\ nonces' = Append(nonces, u.nonce)
    /\ last' = [NoCall EXCEPT !.op = "uniqueNonce", !.nonce = u.nonce,
                  !.before = unique_nonce_entropy]
    /\ UNCHANGED <<now, wire>>

\* a call of uniqueNonce()
UniqueNonce ==
    /\ calls < MaxCalls
    /\ \E random \in Seeds :
        NonceReturned(uniqueNonce(unique_nonce_entropy, random, now))

NextNonce == Tick \/ UniqueNonce

SpecNonce == Init /\ [][NextNonce]_vars

(* ------------------------------- claims -------------------------------- *)

\* the private key last.key is the memo's sender's or its recipient's
IsParty == last.key = wire.sender \/ createPublic(last.key) = wire.recipient

\* decode was called on the memo string of the wire as the sender left it
DecodedWire == last.op = "decode" /\ last.memo = wire.str

\* C1: decode, with the sender's or the recipient's private key, of the
\* string encode returned gives back exactly the memo text handed to encode.
C1_RoundTrip ==
    (DecodedWire /\ wire.kind \in {"encoded", "plain"} /\ IsParty)
        => (last.err = "" /\ last.out = wire.text)

\* C2: a memo that does not start with '#' is returned unchanged by encode
\* and by decode, whatever the keys: nothing is thrown, no key is parsed and
\* no cryptographic step is taken.
C2_MarkerPassThrough ==
    (last.op \in {"encode", "decode"} /\ (last.memo = <<>> \/ last.memo[1] # 35))
        => (last.err = "" /\ last.out = last.memo /\ last.work = <<>>)

\* C2's case: encode and then decode, both with a string that is no key, of
\* a memo that holds '#' but does not start with it
C2_Witness ==
    /\ last.op = "decode" /\ last.key = BadKey
    /\ wire.kind = "plain" /\ wire.sender = BadKey /\ wire.recipient = BadKey
    /\ last.memo = <<1, 35>> /\ last.out = <<1, 35>>

\* the checksum the caller of decode derives from the envelope's nonce and
\* the secret it shares with the counterparty
DerivedCheck ==
    sha256Uint32(sha512(EnvelopeOf(last.memo).nonce,
                        get_shared_secret(last.key, last.otherpub)))

\* C3: whenever the envelope's check differs from the checksum the caller
\* derives, decode fails with 'Invalid nonce', the cipher is not run and no
\* text is returned, for every value of the check field.
C3_ChecksumMismatchRejects ==
    (/\ last.op = "decode" /\ wire.kind \in {"encoded", "raw"}
     /\ last.key # BadKey /\ EnvelopeOf(last.memo).check # DerivedCheck)
        => /\ last.err = "Invalid nonce"
           /\ last.out = <<>>
           /\ \A i \in 1..Len(last.work) : last.work[i] \notin {"cipher", "decipher"}

\* C4: when encode is handed a nonce, the envelope carries that nonce and
\* the nonce generator is not consulted.
C4_SuppliedNonceUsed ==
    (/\ last.op = "encode" /\ last.err = "" /\ wire.kind = "encoded"
     /\ last.testNonce # NoNonce)
        => /\ EnvelopeOf(last.out).nonce = last.testNonce
           /\ unique_nonce_entropy = last.before

\* C5: the nonces uniqueNonce() returned are pairwise distinct, under any
\* seed and any non-decreasing clock; and none of the next NonceRun - 1 calls,
\* at the clock's reading or any later one, returns the last nonce again.
C5_NoncesDistinct ==
    /\ \A i, j \in 1..Len(nonces) : i # j => nonces[i] # nonces[j]
    /\ nonces # <<>> =>
           \A d \in 1..(NonceRun - 1), t \in now..MaxTime :
               NonceOf(unique_nonce_entropy + d, t).nonce # nonces[Len(nonces)]

\* C5's case: three or more calls in one millisecond, the entropy passing
\* the wrap of its modulus
C5_Witness ==
    /\ Len(nonces) >= 3
    /\ \A i \in 1..Len(nonces) : nonces[i] \div 65536 = nonces[1] \div 65536
    /\ \E i \in 2..Len(nonces) : nonces[i] % 65536 < nonces[i - 1] % 65536

\* decode was called, by a party, on the untouched memo of a raw sender
DecodedRaw == DecodedWire /\ wire.kind = "raw" /\ IsParty

\* C6 as claimed: a raw text sent without a length prefix comes back whole:
\* decode does not fail and returns '#' and all the decrypted bytes as UTF-8.
C6_RawTextComesBackWhole ==
    DecodedRaw => (last.err = "" /\ last.out = <<Marker>> \o wire.text)

\* the raw bytes b read as framed: the first byte is a length that the
\* bytes after it cover (a first byte of 128 or more starts a longer varint,
\* whose value no text of these lengths covers)
ReadsAsFramed(b) == Len(b) >= 1 /\ b[1] < 128 /\ 1 + b[1] <= Len(b)

\* C6 amended: when the decrypted bytes do not read as a length-prefixed
\* string, decode does not fail and returns '#' and all the bytes as UTF-8;
\* when they do, it returns '#' and only the bytes the first byte counts.
C6_FallbackWhenUnframed ==
    DecodedRaw =>
        LET b == Utf8Encode(wire.text)
        IN  /\ last.err = ""
            /\ last.out = IF ReadsAsFramed(b)
                          THEN <<Marker>> \o Utf8Decode(SubSeq(b, 2, 1 + b[1]))
                          ELSE <<Marker>> \o wire.text

\* C6's case: the raw text '#' U+00E9 does not read as framed and comes back
C6_Witness ==
    DecodedRaw /\ wire.text = <<35, 233>> /\ last.out = <<35, 35, 233>>

\* C7: the counterparty's key is the envelope's to when the caller's public
\* key equals from, and from in every other case.
C7_Counterparty ==
    (/\ last.op = "decode" /\ wire.kind \in {"encoded", "raw"}
     /\ last.key # BadKey)
        => last.otherpub = IF createPublic(last.key) = createPublic(wire.sender)
                           THEN wire.recipient
                           ELSE createPublic(wire.sender)

\* C7's case: the caller's key is neither from nor to, and from is not to
C7_Witness ==
    /\ last.op = "decode" /\ wire.kind = "encoded" /\ last.key # BadKey
    /\ createPublic(last.key) # createPublic(wire.sender)
    /\ createPublic(last.key) # wire.recipient
    /\ wire.recipient # createPublic(wire.sender)
    /\ last.otherpub = createPublic(wire.sender)

\* C8: the low 16 bits of successive nonces count up modulo 65536, through
\* all of 0..65535, and the high bits are the clock's reading.
C8_EntropyWrapsAt65536 ==
    \A i \in 2..Len(nonces) :
        nonces[i] % 65536 = ((nonces[i - 1] % 65536) + 1) % 65536

\* the last call handed Aes.decrypt nothing or '' for the ciphertext
DecryptedNothing == last.op = "decrypt" /\ ~Truthy(last.msg)

C10_EntropyFrame ==
    (last.op = "decode" \/ (last.op = "encode" /\ (last.memo = <<>> \/ last.memo[1] # 35)))
        => unique_nonce_entropy = last.before

\* C10's case: decode throws 'Invalid nonce' after encode set the counter
C10_Witness ==
    /\ last.op = "decode" /\ last.err = "Invalid nonce"
    /\ wire.kind = "encoded" /\ unique_nonce_entropy # Null
    /\ unique_nonce_entropy = last.before

=============================================================================
